---- MODULE Spec2Model ----
(***************************************************************************)
(* A model of parry's expansion engine (package lib): the quote tokenizer, *)
(* the valid-region resolver, the parameter finder, the parameter resolver *)
(* with its default operators, the quote/escape normalizer, the assignment *)
(* batches (setEnv) and the document expansion call (GetOutput).           *)
(*                                                                         *)
(* A text is a sequence of one-character strings (the []rune of the Go     *)
(* code).  Positions are the 0-based rune indices of the Go code; a range  *)
(* <<s, e>> is the half-open [s, e).  The regular expressions of the       *)
(* source (regexp2, .NET semantics: backtracking, leftmost match, "." is   *)
(* every character but the line feed) are modelled by the scans below.     *)
(***************************************************************************)
EXTENDS Integers, Sequences, FiniteSets, TLC

\* ------------------------------------------------------------ characters
BS == "\\"
SQ == "'"
DQ == "\""
NL == "\n"
DOLLAR == "$"
LBRACE == "{"
RBRACE == "}"
COLON == ":"

UpperChars ==
    {"A", "B", "C", "D", "E", "F", "G", "H", "I", "J", "K", "L", "M",
     "N", "O", "P", "Q", "R", "S", "T", "U", "V", "W", "X", "Y", "Z"}
LowerChars ==
    {"a", "b", "c", "d", "e", "f", "g", "h", "i", "j", "k", "l", "m",
     "n", "o", "p", "q", "r", "s", "t", "u", "v", "w", "x", "y", "z"}
DigitChars == {"0", "1", "2", "3", "4", "5", "6", "7", "8", "9"}
\* paramName: [A-Za-z_][A-Za-z0-9_]*
NameStartChars == UpperChars \cup LowerChars \cup {"_"}
NameChars == NameStartChars \cup DigitChars

\* payload[s:e] of the Go code.
Slice(t, s, e) == SubSeq(t, s + 1, e)

\* The character at 0-based index i, "" past the end.
At(t, i) == IF i >= 0 /\ i < Len(t) THEN t[i + 1] ELSE ""


\* ------------------------------------------------------- unescapedToken
\* The number of consecutive backslashes that end right before index i.
RECURSIVE BackslashRun(_, _)
BackslashRun(t, i) ==
    IF i > 0 /\ At(t, i - 1) = BS THEN 1 + BackslashRun(t, i - 1) ELSE 0

\* (?<=(?:[^\\]|^)(?:[\\]{2})*): the position i is preceded by a whole
\* number of backslash pairs, themselves preceded by a character that is
\* no backslash or by the start of the text.
unescapedToken(t, i) == BackslashRun(t, i) % 2 = 0

\* ------------------------------------------------------ tokenizeByQuotes
unQuoted == 0
singleQuoted == 1
doubleQuoted == 2

\* The least j >= from whose character is a single quote: ([\n\r]|.)*?'
RECURSIVE NextSingleQuote(_, _)
NextSingleQuote(t, from) ==
    IF from >= Len(t) THEN -1
    ELSE IF At(t, from) = SQ THEN from
    ELSE NextSingleQuote(t, from + 1)

\* The least j >= from whose character is an unescaped double quote.
RECURSIVE NextDoubleQuote(_, _)
NextDoubleQuote(t, from) ==
    IF from >= Len(t) THEN -1
    ELSE IF At(t, from) = DQ /\ unescapedToken(t, from) THEN from
    ELSE NextDoubleQuote(t, from + 1)

NoQuoteMatch == [start |-> -1, end |-> -1, type |-> unQuoted]

\* The match that starts at i and ends with the closing quote at j, if any.
QuoteMatch(i, j, type) ==
    IF j >= 0 THEN [start |-> i, end |-> j + 1, type |-> type] ELSE NoQuoteMatch

\* quoteTokenizerPattern tried at index i: an unescaped single quote up to
\* the next single quote, or an unescaped double quote up to the next
\* unescaped double quote.
QuoteMatchAt(t, i) ==
    IF ~unescapedToken(t, i) THEN NoQuoteMatch
    ELSE IF At(t, i) = SQ THEN QuoteMatch(i, NextSingleQuote(t, i + 1), singleQuoted)
    ELSE IF At(t, i) = DQ THEN QuoteMatch(i, NextDoubleQuote(t, i + 1), doubleQuoted)
    ELSE NoQuoteMatch

\* FindRunesMatch / FindNextMatch: the leftmost match at or after from.
RECURSIVE NextQuoteMatch(_, _)
RECURSIVE QuoteMatchOrNext(_, _, _)
QuoteMatchOrNext(t, from, m) ==
    IF m.start >= 0 THEN m ELSE NextQuoteMatch(t, from + 1)

NextQuoteMatch(t, from) ==
    IF from >= Len(t) THEN NoQuoteMatch
    ELSE QuoteMatchOrNext(t, from, QuoteMatchAt(t, from))

Segment(s, e, type) == [Position |-> <<s, e>>, SegmentType |-> type]

\* The loop of tokenizeByQuotes from lastIndex on, m the match found there.
RECURSIVE TokenizeFrom(_, _)
RECURSIVE TokenizeMatch(_, _, _)
\* The loop's turn without the check lastIndex != m.Index.
TokenizeMatchUnchecked(t, lastIndex, m) ==
    IF m.start < 0
    THEN IF lastIndex # Len(t)
         THEN <<Segment(lastIndex, Len(t), unQuoted)>>
         ELSE <<>>
    ELSE <<Segment(lastIndex, m.start, unQuoted), Segment(m.start, m.end, m.type)>>
         \o TokenizeFrom(t, m.end)

TokenizeMatch(t, lastIndex, m) ==
    IF m.start < 0
    THEN IF lastIndex # Len(t)
         THEN <<Segment(lastIndex, Len(t), unQuoted)>>
         ELSE <<>>
    ELSE (IF lastIndex # m.start
          THEN <<Segment(lastIndex, m.start, unQuoted)>>
          ELSE <<>>)
         \o <<Segment(m.start, m.end, m.type)>>
         \o TokenizeFrom(t, m.end)

TokenizeFrom(t, lastIndex) == TokenizeMatch(t, lastIndex, NextQuoteMatch(t, lastIndex))

tokenizeByQuotes(payload) == TokenizeFrom(payload, 0)

\* ------------------------------------------------------- getValidSlices
InRange(i, slice) == (i >= slice[1]) /\ (i < slice[2])

\* The loop of getValidSlices keeps, in acc, the ranges collected so far
\* (valid), the segments it was given (segments) and the index of the segment
\* whose Position array the last range of valid is (owner): append(valid,
\* segment.Position) stores the segment's own array, so that the merge
\* valid[len(valid)-1][1] = ... writes into that segment too.
MergeValid(acc, segment) ==
    [acc EXCEPT !.valid[Len(acc.valid)][2] = segment.Position[2],
                !.segments[acc.owner].Position[2] = segment.Position[2]]

AppendValid(acc, segment, i) ==
    [acc EXCEPT !.valid = Append(acc.valid, segment.Position), !.owner = i]

\* One turn of the loop without the check of the segment's type.
AddValidOfAnyType(acc, segment, i) ==
    IF Len(acc.valid) > 0 /\ acc.valid[Len(acc.valid)][2] = segment.Position[1]
    THEN MergeValid(acc, segment)
    ELSE AppendValid(acc, segment, i)

\* One turn of the loop, for the segment of index i.
AddValid(acc, segment, i) ==
    IF segment.SegmentType # singleQuoted
    THEN IF Len(acc.valid) > 0 /\ acc.valid[Len(acc.valid)][2] = segment.Position[1]
         THEN MergeValid(acc, segment)
         ELSE AppendValid(acc, segment, i)
    ELSE acc

RECURSIVE ValidSlicesFrom(_, _)
ValidSlicesFrom(acc, i) ==
    IF i > Len(acc.segments) THEN acc
    ELSE ValidSlicesFrom(AddValid(acc, acc.segments[i], i), i + 1)

\* The call getValidSlices(segs): the ranges it returns (valid) and the
\* segments of the caller as the call leaves them (segments).
GetValidSlicesCall(segs) ==
    ValidSlicesFrom([valid |-> <<>>, segments |-> segs, owner |-> 0], 1)

getValidSlices(segs) == GetValidSlicesCall(segs).valid

\* ----------------------------------------------------- paramFinderPattern
\* The end of the greedy [A-Za-z0-9_]* run that starts at index i.
RECURSIVE NameEnd(_, _)
NameEnd(t, i) == IF At(t, i) \in NameChars THEN NameEnd(t, i + 1) ELSE i

\* The repeated group of bracedParam from index p on, depth open nested
\* references: the index after the closing brace of the reference, or -1.
RECURSIVE BracedScan(_, _, _)
BracedScan(t, p, depth) ==
    IF p >= Len(t) THEN -1
    ELSE IF At(t, p) = DOLLAR /\ unescapedToken(t, p) /\ At(t, p + 1) = LBRACE
    THEN IF At(t, p + 2) \in NameStartChars
         THEN BracedScan(t, NameEnd(t, p + 3), depth + 1)    \* braceDepth
         ELSE -1
    ELSE IF At(t, p) = RBRACE /\ depth = 0 THEN p + 1
    ELSE BracedScan(t, p + 1,
             IF At(t, p) = RBRACE THEN depth - 1              \* -braceDepth
             ELSE depth)                 \* [$](?!\{), [^$}] or \\[$]

\* paramFinderPattern tried at index i: the match's end, or -1.
ParamMatchAt(t, i) ==
    IF At(t, i) # DOLLAR \/ ~unescapedToken(t, i) THEN -1
    ELSE IF At(t, i + 1) \in NameStartChars THEN NameEnd(t, i + 2)
    ELSE IF At(t, i + 1) = LBRACE /\ At(t, i + 2) \in NameStartChars
    THEN BracedScan(t, NameEnd(t, i + 3), 0)
    ELSE -1

\* The leftmost match of paramFinderPattern at or after from: <<s, e>>, or
\* <<-1, -1>>.
RECURSIVE NextParamMatch(_, _)
RECURSIVE ParamMatchOrNext(_, _, _)
ParamMatchOrNext(t, from, end) ==
    IF end >= 0 THEN <<from, end>> ELSE NextParamMatch(t, from + 1)

NextParamMatch(t, from) ==
    IF from >= Len(t) THEN <<-1, -1>>
    ELSE ParamMatchOrNext(t, from, ParamMatchAt(t, from))

\* MatchesToIndices(re, payload) for re = paramFinderPattern, from index
\* from on.
RECURSIVE MatchesFrom(_, _)
RECURSIVE MatchesWith(_, _)
MatchesWith(t, m) == IF m[1] < 0 THEN <<>> ELSE <<m>> \o MatchesFrom(t, m[2])

MatchesFrom(t, from) == MatchesWith(t, NextParamMatch(t, from))

MatchesToIndices(t) == MatchesFrom(t, 0)

Param(t, pos) == [Id |-> Slice(t, pos[1], pos[2]), Position |-> pos]

InSomeSlice(i, slices) == \E k \in 1..Len(slices) : InRange(i, slices[k])

RECURSIVE FilterMatches(_, _, _)
FilterMatches(t, matches, slices) ==
    IF matches = <<>> THEN <<>>
    ELSE (IF InSomeSlice(Head(matches)[1], slices)
          THEN <<Param(t, Head(matches))>>
          ELSE <<>>)
         \o FilterMatches(t, Tail(matches), slices)

findParams(t, slices) == FilterMatches(t, MatchesToIndices(t), slices)

\* ------------------------------------------------------------ Environment
\* The process environment: a function from the names that are set (texts)
\* to their values (texts).  A name outside its domain is unset.
LookupEnv(env, name) ==
    IF name \in DOMAIN env
    THEN [value |-> env[name], isSet |-> TRUE]
    ELSE [value |-> <<>>, isSet |-> FALSE]

Getenv(env, name) == LookupEnv(env, name).value

\* A Setenv that leaves a variable that is set as it is.
SetenvUnlessSet(env, name, value) ==
    [k \in DOMAIN env \cup {name} |-> IF k \in DOMAIN env THEN env[k] ELSE value]

Setenv(env, name, value) ==
    [k \in DOMAIN env \cup {name} |-> IF k = name THEN value ELSE env[k]]

\* ----------------------------------------------------- paramParserPattern
OperatorChars == {"-", "+", "?"}

NoParserMatch ==
    [found |-> FALSE, defaults |-> FALSE, defaultsOperation |-> <<>>,
     defaultsValue |-> <<>>]

\* paramDefaults tried at index q: the length of :?[-+?] there, or 0.
OperationLength(r, q) ==
    IF At(r, q) = COLON /\ At(r, q + 1) \in OperatorChars THEN 2
    ELSE IF At(r, q) \in OperatorChars THEN 1
    ELSE 0

\* The rest of paramParserPattern after the name that ends at q: either the
\* operator (opLen characters) and .*? (no line feed) up to the last
\* character, or nothing, then \} at the end of the text.
ParserMatchAfterName(r, q, opLen) ==
    IF /\ opLen > 0
       /\ q + opLen <= Len(r) - 1
       /\ At(r, Len(r) - 1) = RBRACE
       /\ \A k \in (q + opLen)..(Len(r) - 2) : At(r, k) # NL
    THEN [found |-> TRUE, defaults |-> TRUE,
          defaultsOperation |-> Slice(r, q, q + opLen),
          defaultsValue |-> Slice(r, q + opLen, Len(r) - 1)]
    ELSE IF At(r, q) = RBRACE /\ q = Len(r) - 1
    THEN [found |-> TRUE, defaults |-> FALSE,
          defaultsOperation |-> <<>>, defaultsValue |-> <<>>]
    ELSE NoParserMatch

ParserMatchName(r, q) == ParserMatchAfterName(r, q, OperationLength(r, q))

\* paramParserPattern tried at index s of r.
ParserMatchAt(r, s) ==
    IF At(r, s) = DOLLAR /\ At(r, s + 1) = LBRACE /\ At(r, s + 2) \in NameStartChars
    THEN ParserMatchName(r, NameEnd(r, s + 3))
    ELSE NoParserMatch

\* paramParserRegex.FindStringMatch(r): the pattern has no anchor at its
\* start, so the leftmost index at which it matches is taken.
RECURSIVE ParserMatchFrom(_, _)
RECURSIVE ParserMatchOrNext(_, _, _)
ParserMatchOrNext(r, s, m) == IF m.found THEN m ELSE ParserMatchFrom(r, s + 1)

ParserMatchFrom(r, s) ==
    IF s >= Len(r) THEN NoParserMatch
    ELSE ParserMatchOrNext(r, s, ParserMatchAt(r, s))

ParserMatch(r) == ParserMatchFrom(r, 0)

\* --------------------------------------------------------- handleDefaults
\* The switch of handleDefaults, looked being os.LookupEnv(param).
DefaultsSwitch(last, emptyEqualsUnset, looked) ==
    CASE last = "-" ->
           [value |-> looked.value,
            resolved |-> ~((Len(looked.value) = 0 /\ emptyEqualsUnset) \/ ~looked.isSet),
            failing |-> FALSE]
      [] last = "+" ->
           [value |-> looked.value,
            resolved |-> ~(Len(looked.value) > 0 \/ (looked.isSet /\ ~emptyEqualsUnset)),
            failing |-> FALSE]
      [] last = "?" ->
           [value |-> looked.value,
            resolved |-> ~((Len(looked.value) = 0 /\ emptyEqualsUnset) \/ ~looked.isSet),
            failing |-> (Len(looked.value) = 0 /\ emptyEqualsUnset) \/ ~looked.isSet]
      [] OTHER ->
           [value |-> looked.value, resolved |-> TRUE, failing |-> FALSE]

\* handleDefaults with emptyEqualsUnset never set: the colon is not looked at.
handleDefaultsWithoutColon(operation, param, env) ==
    DefaultsSwitch(operation[Len(operation)], FALSE, LookupEnv(env, param))

handleDefaults(operation, param, env) ==
    DefaultsSwitch(operation[Len(operation)], operation[1] = COLON,
                   LookupEnv(env, param))

\* ------------------------------------------- parseParam, parseEmbeddedParams
\* A call's outcome: ok with the returned text, or a panic with its message.
Returned(v) == [ok |-> TRUE, val |-> v]
Panicked(msg) == [ok |-> FALSE, val |-> msg]

\* before, then the outcome v, then the outcome rest: the first panic, or the
\* concatenation.
Concat(before, v, rest) ==
    IF ~v.ok THEN v
    ELSE IF ~rest.ok THEN rest
    ELSE Returned(before \o v.val \o rest.val)

\* if failing { panic(value) }
PanicIf(failing, v) == IF v.ok /\ failing THEN Panicked(v.val) ELSE v

RECURSIVE parseParam(_, _)
RECURSIVE ReplaceParamsFrom(_, _, _)
RECURSIVE ReplaceMatch(_, _, _, _)

\* re.ReplaceFunc(value, embeddedParser, -1, -1) from index from on: every
\* match, left to right, is replaced by parseParam of the match's text.  A
\* panic of the first match's parseParam ends the call.
ReplaceMatch(t, from, m, env) ==
    IF m[1] < 0 THEN Returned(Slice(t, from, Len(t)))
    ELSE Concat(Slice(t, from, m[1]),
                parseParam(Slice(t, m[1], m[2]), env),
                ReplaceParamsFrom(t, m[2], env))

ReplaceParamsFrom(t, from, env) == ReplaceMatch(t, from, NextParamMatch(t, from), env)

parseEmbeddedParams(value, env) == ReplaceParamsFrom(value, 0, env)

\* The branch of parseParam on the result d of handleDefaults.
DefaultsValue(parserMatch, d, env) ==
    PanicIf(d.failing,
            IF ~d.resolved
            THEN parseEmbeddedParams(parserMatch.defaultsValue, env)
            ELSE Returned(d.value))

\* The branch of parseParam on the match of paramParserRegex.
ParsedValue(parserMatch, braced, env) ==
    IF parserMatch.found /\ parserMatch.defaults
    THEN DefaultsValue(parserMatch,
                       handleDefaults(parserMatch.defaultsOperation, braced, env),
                       env)
    ELSE Returned(Getenv(env, braced))

\* The value parseParam gives the braced reference ref whose name is braced.
BracedValue(ref, braced, env) == ParsedValue(ParserMatch(ref), braced, env)

\* The value parseParam gives the text ref of the finder's match.
MatchValue(ref, env) ==
    IF At(ref, 1) = LBRACE
    THEN BracedValue(ref, Slice(ref, 2, NameEnd(ref, 3)), env)
    ELSE Returned(Getenv(env, Slice(ref, 1, Len(ref))))

\* The branch of parseParam on the match of paramFinderRegex: only the
\* first match is resolved, the text around it is kept.
ParseMatch(param, finderMatch, env) ==
    IF finderMatch[1] < 0 THEN Returned(param)
    ELSE Concat(Slice(param, 0, finderMatch[1]),
                MatchValue(Slice(param, finderMatch[1], finderMatch[2]), env),
                Returned(Slice(param, finderMatch[2], Len(param))))

parseParam(param, env) == ParseMatch(param, NextParamMatch(param, 0), env)

\* ---------------------------------------------------- escapeLiteralDollars
\* The text wrapped in the quotes of the context it was found in.
WrapInParent(param, parent) ==
    IF parent = singleQuoted THEN <<SQ>> \o param \o <<SQ>>
    ELSE IF parent = doubleQuoted THEN <<DQ>> \o param \o <<DQ>>
    ELSE param

\* unescapedDollarRegex.Replace(t, `\$`, -1, -1): a backslash is put before
\* every unescaped dollar of t.
RECURSIVE EscapeDollarsFrom(_, _)
EscapeDollarsFrom(t, i) ==
    IF i >= Len(t) THEN <<>>
    ELSE (IF At(t, i) = DOLLAR /\ unescapedToken(t, i)
          THEN <<BS, DOLLAR>>
          ELSE <<At(t, i)>>)
         \o EscapeDollarsFrom(t, i + 1)

\* The loop of escapeLiteralDollars: the segments' texts, those of the
\* single-quoted segments with their dollars escaped, joined.
RECURSIVE EscapeDollarsInSegments(_, _)
EscapeDollarsInSegments(payload, segs) ==
    IF segs = <<>> THEN <<>>
    ELSE (IF Head(segs).SegmentType = singleQuoted
          THEN EscapeDollarsFrom(Slice(payload, Head(segs).Position[1],
                                       Head(segs).Position[2]), 0)
          ELSE Slice(payload, Head(segs).Position[1], Head(segs).Position[2]))
         \o EscapeDollarsInSegments(payload, Tail(segs))

\* param[1 : len(param)-1] when the text was wrapped.
Unwrap(joined, parent) ==
    IF parent # unQuoted THEN Slice(joined, 1, Len(joined) - 1) ELSE joined

EscapeDollarsOf(payload, parent) ==
    Unwrap(EscapeDollarsInSegments(payload, tokenizeByQuotes(payload)), parent)

escapeLiteralDollars(param, parent) ==
    EscapeDollarsOf(WrapInParent(param, parent), parent)

\* ------------------------------------------------------------ escapeHandler
Printable ==
    <<" ", "!", DQ, "#", "$", "%", "&", "'", "(", ")", "*", "+", ",", "-", ".",
      "/", "0", "1", "2", "3", "4", "5", "6", "7", "8", "9", ":", ";", "<", "=",
      ">", "?", "@", "A", "B", "C", "D", "E", "F", "G", "H", "I", "J", "K", "L",
      "M", "N", "O", "P", "Q", "R", "S", "T", "U", "V", "W", "X", "Y", "Z", "[",
      BS, "]", "^", "_", "U+96", "a", "b", "c", "d", "e", "f", "g", "h", "i", "j",
      "k", "l", "m", "n", "o", "p", "q", "r", "s", "t", "u", "v", "w", "x", "y",
      "z", "{", "|", "}", "~">>

\* string(rune(n)): the character with code point n; the characters that
\* this module cannot write are named by their code point.
RuneOf(n) ==
    IF n >= 32 /\ n <= 126 THEN Printable[n - 31]
    ELSE IF n = 10 THEN NL
    ELSE IF n = 9 THEN "\t"
    ELSE IF n = 13 THEN "\r"
    ELSE "U+" \o ToString(n)

HexDigitChars == DigitChars \cup {"a", "b", "c", "d", "e", "f", "A", "B", "C", "D", "E", "F"}
OctalDigitChars == {"0", "1", "2", "3", "4", "5", "6", "7"}

HexValue(c) ==
    CASE c \in {"a", "A"} -> 10 [] c \in {"b", "B"} -> 11 [] c \in {"c", "C"} -> 12
      [] c \in {"d", "D"} -> 13 [] c \in {"e", "E"} -> 14 [] c \in {"f", "F"} -> 15
      [] c = "0" -> 0 [] c = "1" -> 1 [] c = "2" -> 2 [] c = "3" -> 3 [] c = "4" -> 4
      [] c = "5" -> 5 [] c = "6" -> 6 [] c = "7" -> 7 [] c = "8" -> 8 [] c = "9" -> 9
      [] OTHER -> 0

\* The number written by the digits ds in the given base.
RECURSIVE DigitsValue(_, _)
DigitsValue(ds, base) ==
    IF ds = <<>> THEN 0
    ELSE DigitsValue(SubSeq(ds, 1, Len(ds) - 1), base) * base + HexValue(ds[Len(ds)])

AllIn(t, s, e, chars) == e <= Len(t) /\ \A k \in s..(e - 1) : At(t, k) \in chars

\* The length of the escape sequence that escapeSequenceRegex matches at
\* index i (the backslash included), 0 when it does not match there.
EscapeLengthAt(t, i) ==
    IF At(t, i) # BS \/ ~unescapedToken(t, i) THEN 0
    ELSE LET c == At(t, i + 1) IN
         IF c = DOLLAR THEN 2
         ELSE IF c \in {BS, "a", "b", "f", "n", "r", "t", "v"} THEN 2
         ELSE IF AllIn(t, i + 1, i + 4, OctalDigitChars) THEN 4
         ELSE IF c = "x" /\ AllIn(t, i + 2, i + 4, HexDigitChars) THEN 4
         ELSE IF c = "u" /\ AllIn(t, i + 2, i + 6, HexDigitChars) THEN 6
         ELSE IF c = "U" /\ AllIn(t, i + 2, i + 10, HexDigitChars) THEN 10
         ELSE 0

\* A code point that utf8.ValidRune accepts.
ValidRune(v) == (v >= 0 /\ v < 55296) \/ (v > 57343 /\ v <= 1114111)

\* The code point strconv.UnquoteChar gives for a \u or \U sequence: the
\* zero rune when it is no valid rune.
UnicodeCode(v) == IF ValidRune(v) THEN v ELSE 0

\* The code point strconv.UnquoteChar gives for an octal sequence: the zero
\* rune when it is above 255.
OctalCode(v) == IF v > 255 THEN 0 ELSE v

\* The code point of the replacement of the escape sequence m.
EscapeCode(m) ==
    CASE m[2] = DOLLAR -> 36
      [] m[2] = BS -> 92
      [] m[2] = "a" -> 7
      [] m[2] = "b" -> 8
      [] m[2] = "f" -> 12
      [] m[2] = "n" -> 10
      [] m[2] = "r" -> 13
      [] m[2] = "t" -> 9
      [] m[2] = "v" -> 11
      [] m[2] = "x" -> DigitsValue(Tail(Tail(m)), 16)
      [] m[2] \in {"u", "U"} -> UnicodeCode(DigitsValue(Tail(Tail(m)), 16))
      [] OTHER -> OctalCode(DigitsValue(Tail(m), 8))

\* The replacement of the escape sequence m: `$` for `\$`, else the
\* character strconv.UnquoteChar gives.
EscapeReplacement(m) == RuneOf(EscapeCode(m))

\* The loop of escapeHandler from index i on, n the length of the escape
\* sequence matched at i.
RECURSIVE EscapeFrom(_, _)
RECURSIVE EscapeStep(_, _, _)
EscapeStep(t, i, n) ==
    IF n > 0
    THEN <<EscapeReplacement(Slice(t, i, i + n))>> \o EscapeFrom(t, i + n)
    ELSE <<At(t, i)>> \o EscapeFrom(t, i + 1)

EscapeFrom(t, i) ==
    IF i >= Len(t) THEN <<>> ELSE EscapeStep(t, i, EscapeLengthAt(t, i))

escapeHandler(param) == EscapeFrom(param, 0)

\* ------------------------------------------------------------- quoteHandler
\* The index of the first unescaped quote of t (resolveAllQuotesRegex), -1
\* when it has none.
RECURSIVE FirstUnescapedQuote(_, _)
FirstUnescapedQuote(t, i) ==
    IF i >= Len(t) THEN -1
    ELSE IF At(t, i) \in {SQ, DQ} /\ unescapedToken(t, i) THEN i
    ELSE FirstUnescapedQuote(t, i + 1)

\* re.Replace(t, ``, -1, -1) for the unescaped characters of chars.
RECURSIVE RemoveUnescaped(_, _, _)
RemoveUnescaped(t, i, chars) ==
    IF i >= Len(t) THEN <<>>
    ELSE (IF At(t, i) \in chars /\ unescapedToken(t, i) THEN <<>> ELSE <<At(t, i)>>)
         \o RemoveUnescaped(t, i + 1, chars)

\* `\\.` replaced by unescaper: a backslash and the character after it
\* (any but the line feed) become that character.
RECURSIVE UnescapeAny(_, _)
UnescapeAny(t, i) ==
    IF i >= Len(t) THEN <<>>
    ELSE IF At(t, i) = BS /\ i + 1 < Len(t) /\ At(t, i + 1) # NL
    THEN <<At(t, i + 1)>> \o UnescapeAny(t, i + 2)
    ELSE <<At(t, i)>> \o UnescapeAny(t, i + 1)

\* unescapeAllQuotesRegex replaced by unescaper: an unescaped backslash
\* followed by a quote becomes the quote.
RECURSIVE UnescapeQuotes(_, _)
UnescapeQuotes(t, i) ==
    IF i >= Len(t) THEN <<>>
    ELSE IF At(t, i) = BS /\ unescapedToken(t, i) /\ At(t, i + 1) \in {SQ, DQ}
    THEN <<At(t, i + 1)>> \o UnescapeQuotes(t, i + 2)
    ELSE <<At(t, i)>> \o UnescapeQuotes(t, i + 1)

UnmatchedQuote(c, param) == <<"unmatched quote ", c, " in: ">> \o param

\* An unQuoted branch that removes the quotes it finds without a panic.
UnquotedSegmentUnchecked(payload, runner, q) ==
    Returned(UnescapeAny(RemoveUnescaped(runner, 0, {SQ, DQ}), 0))

\* The unQuoted branch of quoteHandler's loop, q the index of the first
\* unescaped quote of runner.
UnquotedSegment(payload, runner, q) ==
    IF q >= 0
    THEN Panicked(UnmatchedQuote(At(runner, q), payload))
    ELSE Returned(UnescapeAny(RemoveUnescaped(runner, 0, {SQ, DQ}), 0))

\* Strip helper quotes.
StripQuotes(runner, type, parent) ==
    IF parent = type \/ parent = unQuoted
    THEN Slice(runner, 1, Len(runner) - 1)
    ELSE runner

\* The quoted branch of quoteHandler's loop.
QuotedSegment(stripped, type) ==
    IF type = doubleQuoted
    THEN Returned(UnescapeQuotes(RemoveUnescaped(stripped, 0, {DQ}), 0))
    ELSE Returned(stripped)

\* The body of quoteHandler's loop for the segment of text runner: the text
\* as it enters the result, or the panic.
QuoteSegment(payload, runner, type, parent) ==
    IF type = unQuoted
    THEN UnquotedSegment(payload, runner, FirstUnescapedQuote(runner, 0))
    ELSE QuotedSegment(StripQuotes(runner, type, parent), type)

RECURSIVE QuoteSegments(_, _, _)
QuoteSegments(payload, segs, parent) ==
    IF segs = <<>> THEN Returned(<<>>)
    ELSE Concat(<<>>,
                QuoteSegment(payload,
                             Slice(payload, Head(segs).Position[1], Head(segs).Position[2]),
                             Head(segs).SegmentType, parent),
                QuoteSegments(payload, Tail(segs), parent))

\* return escapeHandler(result)
EscapeResult(result) ==
    IF ~result.ok THEN result ELSE Returned(escapeHandler(result.val))

QuoteHandlerOf(payload, parent) ==
    EscapeResult(QuoteSegments(payload, tokenizeByQuotes(payload), parent))

quoteHandler(param, parent) == QuoteHandlerOf(WrapInParent(param, parent), parent)

\* ------------------------------------------------------------ parserHandler
QuoteParsed(parsed, parent) ==
    IF ~parsed.ok THEN parsed ELSE quoteHandler(parsed.val, parent)

parserHandler(param, parent, env) ==
    QuoteParsed(parseParam(escapeLiteralDollars(param, parent), env), parent)

\* ------------------------------------------------------------------ setEnv
WhitespaceChars == {" ", "\t", NL, "\r", "\f"}

RECURSIVE WhitespaceEnd(_, _)
WhitespaceEnd(t, i) ==
    IF At(t, i) \in WhitespaceChars THEN WhitespaceEnd(t, i + 1) ELSE i

RECURSIVE LineEnd(_, _)
LineEnd(t, i) == IF i >= Len(t) \/ At(t, i) = NL THEN i ELSE LineEnd(t, i + 1)

NoEnvMatch == [found |-> FALSE, name |-> <<>>, value |-> <<>>, end |-> -1]

\* (?<name>paramName)=(?<value>.*), the name being [p, q) and the value
\* ending at e.
EnvVar(t, p, q, e) ==
    [found |-> TRUE, name |-> Slice(t, p, q), value |-> Slice(t, q + 1, e), end |-> e]

EnvVarNamed(t, p, q) ==
    IF At(t, q) = "=" THEN EnvVar(t, p, q, LineEnd(t, q + 1)) ELSE NoEnvMatch

\* envVarPattern at index p.
EnvVarAt(t, p) ==
    IF At(t, p) \in NameStartChars THEN EnvVarNamed(t, p, NameEnd(t, p + 1))
    ELSE NoEnvMatch

\* (?:export\s+)? at index p: the index after it when it matches there.
ExportEnd(t, p) ==
    IF /\ p + 6 <= Len(t)
       /\ Slice(t, p, p + 6) = <<"e", "x", "p", "o", "r", "t">>
       /\ At(t, p + 6) \in WhitespaceChars
    THEN WhitespaceEnd(t, p + 6)
    ELSE p

\* The match after the export prefix, or else the match without it.
EnvMatchOr(t, p, m) == IF m.found THEN m ELSE EnvVarAt(t, p)

\* envParserPattern (^ envVarPattern) or, for a file, envFileParserPattern
\* (^(?:export\s+)? envVarPattern), tried at index p; with Multiline, ^ is
\* the start of the text or the index after a line feed.
EnvMatchAt(t, p, isFile) ==
    IF ~(p = 0 \/ At(t, p - 1) = NL) THEN NoEnvMatch
    ELSE IF isFile THEN EnvMatchOr(t, p, EnvVarAt(t, ExportEnd(t, p)))
    ELSE EnvVarAt(t, p)

\* re.FindStringMatch / re.FindNextMatch: the leftmost match at or after from.
RECURSIVE NextEnvMatch(_, _, _)
RECURSIVE EnvMatchOrNext(_, _, _, _)
EnvMatchOrNext(t, from, isFile, m) ==
    IF m.found THEN m ELSE NextEnvMatch(t, from + 1, isFile)

NextEnvMatch(t, from, isFile) ==
    IF from >= Len(t) THEN NoEnvMatch
    ELSE EnvMatchOrNext(t, from, isFile, EnvMatchAt(t, from, isFile))

InvalidSyntax == <<"Invalid env assignment syntax">>

\* strings.Join(overrides, "\n")
RECURSIVE JoinLines(_)
JoinLines(lines) ==
    IF lines = <<>> THEN <<>>
    ELSE IF Len(lines) = 1 THEN lines[1]
    ELSE lines[1] \o <<NL>> \o JoinLines(Tail(lines))

\* ------------------------------------------------------------- listParams
RECURSIVE listParams(_)
listParams(ps) ==
    IF ps = <<>> THEN <<>>
    ELSE <<[Param |-> Head(ps).Id, Index |-> Head(ps).Position[1]]>>
         \o listParams(Tail(ps))


\* ================================================================ the state
VARIABLES
    config,       \* the Config of the call: list, preserve, ignoreQuotes,
                  \* editInPlace, envFiles (their contents), envOverrides
    payload,      \* the document read by readToRunes
    env,          \* the process environment
    pc,           \* the place the call has reached
    segments,     \* a tokenization (tokenizeByQuotes)
    validSlices,  \* the valid ranges
    params,       \* the references found by findParams
    values,       \* the AssocArray of mapParamValues
    mapIdx,       \* the index of mapParamValues' loop (1-based)
    writeIdx,     \* the index of GetOutput's writing loop (1-based)
    firstIndex,   \* firstIndex of GetOutput's writing loop
    stdout,       \* the text printed to os.Stdout
    listed,       \* the records printed by the list call
    disk,         \* the content of config.file on disk
    created,      \* os.Create(config.file) has been called
    batch,        \* the running setEnv call: its payload, isFile, its match m
    fileIdx,      \* the index of the loop over config.envFiles (1-based)
    call,         \* the running parseParam call of the resolver's own steps
    calls,        \* history: the texts the parser was called with, in order
    applied,      \* history: the os.Setenv calls, in order
    panicMsg,     \* the message of the panic that ended the call
    parent,       \* the SegmentType the running quoteHandler was called with
    result        \* the text the running quoteHandler returned

vars ==
    <<config, payload, env, pc, segments, validSlices, params, values, mapIdx,
      writeIdx, firstIndex, stdout, listed, disk, created, batch, fileIdx, call,
      calls, applied, panicMsg, parent, result>>

NoBatch == [text |-> <<>>, isFile |-> FALSE, m |-> NoEnvMatch]
NoCall ==
    [param |-> <<>>, finderMatch |-> <<-1, -1>>, braced |-> <<>>,
     parserMatch |-> NoParserMatch, value |-> <<>>, resolved |-> FALSE,
     failing |-> FALSE]
EmptyEnv == [k \in {} |-> <<>>]

\* values[id] of the Go map: the empty text for a missing key.
ValueOf(vals, id) == IF id \in DOMAIN vals THEN vals[id] ELSE <<>>

\* ------------------------------------------------------------- GetOutput
\* A GetOutput that honours the quotes whatever config.ignoreQuotes is.
ReadPayloadHonouringQuotes ==
    /\ pc = "GetOutput"
    /\ validSlices' = getValidSlices(tokenizeByQuotes(payload))
    /\ pc' = "envFiles"
    /\ UNCHANGED <<config, parent, result, payload, env, segments, params, values,
                   mapIdx, writeIdx, firstIndex, stdout, listed, disk, created,
                   batch, fileIdx, call, calls, applied, panicMsg>>

\* Lines 1261-1268: the payload is read and the valid ranges are computed.
ReadPayload ==
    /\ pc = "GetOutput"
    /\ validSlices' = IF config.ignoreQuotes
                      THEN <<<<0, Len(payload)>>>>
                      ELSE getValidSlices(tokenizeByQuotes(payload))
    /\ pc' = "envFiles"
    /\ UNCHANGED <<config, parent, result, payload, env, segments, params, values,
                   mapIdx, writeIdx, firstIndex, stdout, listed, disk, created,
                   batch, fileIdx, call, calls, applied, panicMsg>>

\* setEnv, lines 1244-1253, m being the first match of the batch: the loop is
\* entered, or the call panics.
EnterBatch(text, isFile, m) ==
    IF ~m.found
    THEN /\ pc' = "panicked"
         /\ panicMsg' = InvalidSyntax
         /\ UNCHANGED batch
    ELSE /\ pc' = "setEnv"
         /\ batch' = [text |-> text, isFile |-> isFile, m |-> m]
         /\ UNCHANGED panicMsg

EnterSetEnv(text, isFile) == EnterBatch(text, isFile, NextEnvMatch(text, 0, isFile))

\* Lines 1269-1275: the next env file is handed to setEnv.
EnvFile ==
    /\ pc = "envFiles"
    /\ fileIdx <= Len(config.envFiles)
    /\ EnterSetEnv(config.envFiles[fileIdx], TRUE)
    /\ UNCHANGED <<config, parent, result, payload, env, segments, validSlices,
                   params, values, mapIdx, writeIdx, firstIndex, stdout, listed,
                   disk, created, fileIdx, call, calls, applied>>

\* Lines 1276-1278: after the last env file, the overrides, joined by line
\* feeds, are handed to setEnv, if there are any.
Overrides ==
    /\ pc = "envFiles"
    /\ fileIdx > Len(config.envFiles)
    /\ IF Len(config.envOverrides) > 0
       THEN EnterSetEnv(JoinLines(config.envOverrides), FALSE)
       ELSE pc' = "findParams" /\ UNCHANGED <<batch, panicMsg>>
    /\ UNCHANGED <<config, parent, result, payload, env, segments, validSlices,
                   params, values, mapIdx, writeIdx, firstIndex, stdout, listed,
                   disk, created, fileIdx, call, calls, applied>>

\* GetOutput going on to findParams when the first setEnv returns.
AfterFirstSetEnv(isFile) == "findParams"

\* The place GetOutput goes on from when setEnv returns.
AfterSetEnv(isFile) == IF isFile THEN "envFiles" ELSE "findParams"

\* The assignment a turn of setEnv's loop makes, as the history keeps it.
Assignment(m, value, b, idx) ==
    [name |-> m.name, rhs |-> m.value, value |-> value, isFile |-> b.isFile,
     file |-> idx]

\* setEnv, lines 1254-1257, r being the outcome of parserHandler for the
\* value of the match m and next the match after m.
StoreLine(m, r, next) ==
    IF ~r.ok
    THEN /\ pc' = "panicked"
         /\ panicMsg' = r.val
         /\ UNCHANGED <<env, applied, batch, fileIdx>>
    ELSE /\ env' = Setenv(env, m.name, r.val)
         /\ applied' = Append(applied, Assignment(m, r.val, batch, fileIdx))
         /\ IF next.found
            THEN /\ batch' = [batch EXCEPT !.m = next]
                 /\ UNCHANGED <<pc, fileIdx>>
            ELSE /\ pc' = AfterSetEnv(batch.isFile)
                 /\ fileIdx' = IF batch.isFile THEN fileIdx + 1 ELSE fileIdx
                 /\ batch' = NoBatch
         /\ UNCHANGED panicMsg

\* setEnv, lines 1254-1257: one turn of the loop.  The value of the match is
\* resolved and normalized against the environment as it is now, and stored.
SetEnvLine ==
    /\ pc = "setEnv"
    /\ StoreLine(batch.m,
                 parserHandler(batch.m.value, unQuoted, env),
                 NextEnvMatch(batch.text, batch.m.end, batch.isFile))
    /\ UNCHANGED <<config, parent, result, payload, segments, validSlices, params,
                   values, mapIdx, writeIdx, firstIndex, stdout, listed, disk,
                   created, call, calls>>

\* A GetOutput that expands also when it is asked to list.
BranchOnParams(cfg, ps) == IF Len(ps) > 0 THEN "map" ELSE "noParams"

\* The branch GetOutput takes with the references found (lines 1280-1304).
BranchOn(cfg, ps) ==
    IF cfg.list THEN "list" ELSE IF Len(ps) > 0 THEN "map" ELSE "noParams"

\* Line 1279.
FindParams ==
    /\ pc = "findParams"
    /\ params' = findParams(payload, validSlices)
    /\ pc' = BranchOn(config, params')
    /\ UNCHANGED <<config, parent, result, payload, env, segments, validSlices,
                   values, mapIdx, writeIdx, firstIndex, stdout, listed, disk,
                   created, batch, fileIdx, call, calls, applied, panicMsg>>

\* Lines 1280-1281.
ListParams ==
    /\ pc = "list"
    /\ listed' = listParams(params)
    /\ pc' = "done"
    /\ UNCHANGED <<config, parent, result, payload, env, segments, validSlices,
                   params, values, mapIdx, writeIdx, firstIndex, stdout, disk,
                   created, batch, fileIdx, call, calls, applied, panicMsg>>

\* mapParamValues without the check of line 1122.
NeedsParsingAlways(vals, id) == TRUE

\* mapParamValues, line 1122: the parser is called for this reference.
NeedsParsing(vals, id) == id \notin DOMAIN vals

\* GetOutput starting to write after the first turn of the mapping loop.
AfterFirstMap(idx, ps) == "create"

\* The place GetOutput goes on from after the turn idx of the mapping loop.
AfterMap(idx, ps) == IF idx + 1 > Len(ps) THEN "create" ELSE "map"

\* mapParamValues, line 1123: values[param.Id] = parser(param.Id), r being the
\* outcome of the parser.
StoreValue(id, r) ==
    /\ calls' = Append(calls, id)
    /\ IF r.ok
       THEN /\ values' = [k \in DOMAIN values \cup {id} |->
                             IF k = id THEN r.val ELSE values[k]]
            /\ mapIdx' = mapIdx + 1
            /\ pc' = AfterMap(mapIdx, params)
            /\ UNCHANGED panicMsg
       ELSE /\ pc' = "panicked"
            /\ panicMsg' = r.val
            /\ UNCHANGED <<values, mapIdx>>

\* mapParamValues, lines 1121-1125, called by mapperHandler (line 1285): one
\* turn of the loop, with parseParam as the parser.
MapParam ==
    /\ pc = "map"
    /\ mapIdx <= Len(params)
    /\ IF NeedsParsing(values, params[mapIdx].Id)
       THEN StoreValue(params[mapIdx].Id, parseParam(params[mapIdx].Id, env))
       ELSE /\ mapIdx' = mapIdx + 1
            /\ pc' = AfterMap(mapIdx, params)
            /\ UNCHANGED <<values, calls, panicMsg>>
    /\ UNCHANGED <<config, parent, result, payload, env, segments, validSlices,
                   params, writeIdx, firstIndex, stdout, listed, disk, created,
                   batch, fileIdx, call, applied>>

\* Lines 1286-1289: with editInPlace the file is created, that is truncated.
CreateFile ==
    /\ pc = "create"
    /\ IF config.editInPlace
       THEN disk' = <<>> /\ created' = TRUE
       ELSE UNCHANGED <<disk, created>>
    /\ pc' = "write"
    /\ UNCHANGED <<config, parent, result, payload, env, segments, validSlices,
                   params, values, mapIdx, writeIdx, firstIndex, stdout, listed,
                   batch, fileIdx, call, calls, applied, panicMsg>>

\* fmt.Fprint(file, text): file is the created file, or os.Stdout.
Fprint(text) ==
    IF created
    THEN disk' = disk \o text /\ UNCHANGED stdout
    ELSE stdout' = stdout \o text /\ UNCHANGED disk

\* The writing loop without the check of config.preserve.
WrittenWithoutPreserve(param, first, vals, preserve) ==
    (IF param.Position[1] # first
     THEN Slice(payload, first, param.Position[1])
     ELSE <<>>)
    \o ValueOf(vals, param.Id)

\* What the writing loop prints for one reference (lines 1291-1298).
WrittenFor(param, first, vals, preserve) ==
    (IF param.Position[1] # first
     THEN Slice(payload, first, param.Position[1])
     ELSE <<>>)
    \o (IF Len(ValueOf(vals, param.Id)) = 0 /\ preserve
        THEN param.Id
        ELSE ValueOf(vals, param.Id))

\* Lines 1290-1300: one turn of the writing loop.
WriteParam ==
    /\ pc = "write"
    /\ writeIdx <= Len(params)
    /\ Fprint(WrittenFor(params[writeIdx], firstIndex, values, config.preserve))
    /\ firstIndex' = params[writeIdx].Position[2]
    /\ writeIdx' = writeIdx + 1
    /\ UNCHANGED <<config, parent, result, payload, env, pc, segments, validSlices,
                   params, values, mapIdx, listed, created, batch, fileIdx, call,
                   calls, applied, panicMsg>>

\* Line 1301.
WriteTail ==
    /\ pc = "write"
    /\ writeIdx > Len(params)
    /\ Fprint(Slice(payload, firstIndex, Len(payload)))
    /\ pc' = "done"
    /\ UNCHANGED <<config, parent, result, payload, env, segments, validSlices,
                   params, values, mapIdx, writeIdx, firstIndex, listed, created,
                   batch, fileIdx, call, calls, applied, panicMsg>>

\* Lines 1302-1304: no reference was found.
PrintPayload ==
    /\ pc = "noParams"
    /\ IF ~config.editInPlace
       THEN stdout' = stdout \o payload
       ELSE UNCHANGED stdout
    /\ pc' = "done"
    /\ UNCHANGED <<config, parent, result, payload, env, segments, validSlices,
                   params, values, mapIdx, writeIdx, firstIndex, listed, disk,
                   created, batch, fileIdx, call, calls, applied, panicMsg>>

\* ------------------------------------------------- parseParam, step by step
\* The variables left alone by the steps of parseParam.
ResolveFrame ==
    UNCHANGED <<config, parent, result, payload, env, segments, validSlices,
                params, values, mapIdx, writeIdx, firstIndex, stdout, listed, disk,
                created, batch, fileIdx, calls, applied>>

\* The text of the reference the finder matched in the call c.
Reference(c) == Slice(c.param, c.finderMatch[1], c.finderMatch[2])

\* Lines 1088-1092 and 1108-1110, m being the finder's first match in param:
\* the value of a bare reference, or of a braced one before its operator is
\* looked at, or the text itself when it holds no reference.
Found(m) ==
    IF m[1] < 0
    THEN /\ call' = [call EXCEPT !.value = call.param]
         /\ pc' = "returned"
    ELSE IF At(call.param, m[1] + 1) = LBRACE
    THEN /\ call' = [call EXCEPT
                        !.finderMatch = m,
                        !.braced = Slice(call.param, m[1] + 2,
                                         NameEnd(call.param, m[1] + 3)),
                        !.value = Getenv(env, Slice(call.param, m[1] + 2,
                                                    NameEnd(call.param, m[1] + 3)))]
         /\ pc' = "parser"
    ELSE /\ call' = [call EXCEPT
                        !.finderMatch = m,
                        !.value = Getenv(env, Slice(call.param, m[1] + 1, m[2]))]
         /\ pc' = "splice"

FindReference ==
    /\ pc = "parseParam"
    /\ Found(NextParamMatch(call.param, 0))
    /\ UNCHANGED panicMsg
    /\ ResolveFrame

\* Lines 1093-1094: the operator and the default of the braced reference.
ParseReference ==
    /\ pc = "parser"
    /\ call' = [call EXCEPT !.parserMatch = ParserMatch(Reference(call))]
    /\ pc' = IF call'.parserMatch.found /\ call'.parserMatch.defaults
             THEN "handleDefaults"
             ELSE "splice"
    /\ UNCHANGED panicMsg
    /\ ResolveFrame

\* Line 1095, d being what handleDefaults returns.
Decided(d) ==
    /\ call' = [call EXCEPT !.value = d.value, !.resolved = d.resolved,
                            !.failing = d.failing]
    /\ pc' = IF ~d.resolved THEN "embedded" ELSE "failing"

HandleDefaults ==
    /\ pc = "handleDefaults"
    /\ Decided(handleDefaults(call.parserMatch.defaultsOperation, call.braced, env))
    /\ UNCHANGED panicMsg
    /\ ResolveFrame

\* Lines 1096-1098, r being the outcome of parseEmbeddedParams.
Embedded(r) ==
    IF r.ok
    THEN /\ call' = [call EXCEPT !.value = r.val]
         /\ pc' = "failing"
         /\ UNCHANGED panicMsg
    ELSE /\ pc' = "panicked"
         /\ panicMsg' = r.val
         /\ UNCHANGED call

ParseEmbedded ==
    /\ pc = "embedded"
    /\ Embedded(parseEmbeddedParams(call.parserMatch.defaultsValue, env))
    /\ ResolveFrame

\* Lines 1099-1101: if failing { panic(value) }.
CheckFailing ==
    /\ pc = "failing"
    /\ IF call.failing
       THEN pc' = "panicked" /\ panicMsg' = call.value
       ELSE pc' = "splice" /\ UNCHANGED panicMsg
    /\ UNCHANGED call
    /\ ResolveFrame

\* Line 1107: the value takes the place of the reference in the text.
Splice ==
    /\ pc = "splice"
    /\ call' = [call EXCEPT !.value = Slice(call.param, 0, call.finderMatch[1])
                                      \o call.value
                                      \o Slice(call.param, call.finderMatch[2],
                                               Len(call.param))]
    /\ pc' = "returned"
    /\ UNCHANGED panicMsg
    /\ ResolveFrame

NextResolve ==
    \/ FindReference
    \/ ParseReference
    \/ HandleDefaults
    \/ ParseEmbedded
    \/ CheckFailing
    \/ Splice

\* ------------------------------------------- the scan of a text, step by step
\* The variables left alone by the steps of the scan.
ScanFrame ==
    UNCHANGED <<config, parent, result, payload, env, values, mapIdx, writeIdx,
                firstIndex, stdout, listed, disk, created, batch, fileIdx, call,
                calls, applied, panicMsg>>

\* segments := tokenizeByQuotes(payload)
Tokenize ==
    /\ pc = "tokenizeByQuotes"
    /\ segments' = tokenizeByQuotes(payload)
    /\ pc' = "getValidSlices"
    /\ UNCHANGED <<validSlices, params>>
    /\ ScanFrame

\* The call r of getValidSlices returns: its ranges are kept, and the
\* segments are left as the call wrote them.
ValidSlicesReturned(r) ==
    /\ validSlices' = r.valid
    /\ segments' = r.segments

\* validSlices := getValidSlices(segments)
ValidSlices ==
    /\ pc = "getValidSlices"
    /\ ValidSlicesReturned(GetValidSlicesCall(segments))
    /\ pc' = "scanParams"
    /\ UNCHANGED params
    /\ ScanFrame

\* params := findParams(payload, validSlices)
ScanParams ==
    /\ pc = "scanParams"
    /\ params' = findParams(payload, validSlices)
    /\ pc' = "scanned"
    /\ UNCHANGED <<segments, validSlices>>
    /\ ScanFrame

NextScan ==
    \/ Tokenize
    \/ ValidSlices
    \/ ScanParams

Next ==
    \/ ReadPayload
    \/ EnvFile
    \/ Overrides
    \/ SetEnvLine
    \/ FindParams
    \/ ListParams
    \/ MapParam
    \/ CreateFile
    \/ WriteParam
    \/ WriteTail
    \/ PrintPayload

\* ------------------------------------------ quoteHandler, step by step
\* The variables left alone by the steps of quoteHandler.
QuoteFrame ==
    UNCHANGED <<config, env, validSlices, params, values, mapIdx, writeIdx,
                firstIndex, stdout, listed, disk, created, batch, fileIdx, call,
                calls, applied, parent>>

\* Lines 1028-1035: param is wrapped in the quotes of its context, and
\* segments := tokenizeByQuotes(payload).
QuoteTokenize ==
    /\ pc = "quoteHandler"
    /\ payload' = WrapInParent(payload, parent)
    /\ segments' = tokenizeByQuotes(payload')
    /\ pc' = "quoteSegments"
    /\ UNCHANGED <<result, panicMsg>>
    /\ QuoteFrame

\* The end of the call, r being the outcome of the loop and of escapeHandler.
QuoteReturn(r) ==
    IF r.ok
    THEN pc' = "returned" /\ result' = r.val /\ UNCHANGED panicMsg
    ELSE pc' = "panicked" /\ panicMsg' = r.val /\ UNCHANGED result

\* Lines 1039-1061: the loop over the segments, and return escapeHandler(result).
QuoteLoop ==
    /\ pc = "quoteSegments"
    /\ QuoteReturn(EscapeResult(QuoteSegments(payload, segments, parent)))
    /\ UNCHANGED <<payload, segments>>
    /\ QuoteFrame

NextQuote ==
    \/ QuoteTokenize
    \/ QuoteLoop

\* ------------------------------------------------------------ the inputs
\* The texts made of at most n of the given parts.
RECURSIVE TextsOf(_, _)
TextsOf(parts, n) ==
    IF n = 0 THEN {<<>>}
    ELSE TextsOf(parts, n - 1)
         \cup {p \o t : p \in parts, t \in TextsOf(parts, n - 1)}

\* The lists of at most n of the given items.
ListsOf(items, n) == UNION {[1..k -> items] : k \in 0..n}

Name(c) == <<c>>

\* The Config of a call that sets no flag.
NoConfig ==
    [list |-> FALSE, preserve |-> FALSE, ignoreQuotes |-> FALSE,
     editInPlace |-> FALSE, envFiles |-> <<>>, envOverrides |-> <<>>]

\* The state in which the code at the place at is entered, type being the
\* context of the call when the place is quoteHandler.
StartWith(at, cfg, doc, e, c, type) ==
    /\ config = cfg
    /\ payload = doc
    /\ env = e
    /\ pc = at
    /\ segments = <<>>
    /\ validSlices = <<>>
    /\ params = <<>>
    /\ values = EmptyEnv
    /\ mapIdx = 1
    /\ writeIdx = 1
    /\ firstIndex = 0
    /\ stdout = <<>>
    /\ listed = <<>>
    /\ disk = doc
    /\ created = FALSE
    /\ batch = NoBatch
    /\ fileIdx = 1
    /\ call = c
    /\ calls = <<>>
    /\ applied = <<>>
    /\ panicMsg = <<>>
    /\ parent = type
    /\ result = <<>>

StartAt(at, cfg, doc, e, c) == StartWith(at, cfg, doc, e, c, unQuoted)

\* The state GetOutput is called in.
GetOutputInit(cfg, doc, e) == StartAt("GetOutput", cfg, doc, e, NoCall)

\* Documents: at most MaxDocParts parts, each a literal, a reference (bare,
\* with a default, required) or a single-quoted text.
MaxDocParts == 3

DocParts ==
    { <<".">>,
      <<"$", "A">>,
      <<"$", "B">>,
      <<"$", "{", "B", "-", "$", "A", "}">>,
      <<"$", "{", "C", ":", "?", "e", "$", "A", "}">>,
      <<"'", "$", "A", "'">> }

Docs == TextsOf(DocParts, MaxDocParts)

\* The Config of a call with the given flags, env files and overrides.
ConfigOf(l, p, q, i, f, o) ==
    [list |-> l, preserve |-> p, ignoreQuotes |-> q, editInPlace |-> i,
     envFiles |-> f, envOverrides |-> o]

\* The calls that differ by their flags: an expansion with preserve and
\* editInPlace on or off, without assignments or with an env file and an
\* override; an expansion that ignores the quotes; a listing.
FlagConfigs ==
    {ConfigOf(FALSE, p, FALSE, i, e[1], e[2]) :
        p \in BOOLEAN, i \in BOOLEAN,
        e \in { <<<<>>, <<>>>>,
                << << <<"C", "=", "c", NL, "B", "=">> >>, << <<"A", "=">> >> >> }}
    \cup {ConfigOf(FALSE, FALSE, TRUE, FALSE, <<>>, <<>>)}
    \cup {ConfigOf(TRUE, FALSE, q, FALSE, <<>>, <<>>) : q \in BOOLEAN}

\* The calls that differ by their assignments: at most MaxEnvFiles env files
\* and at most MaxOverrides overrides.
MaxEnvFiles == 2
MaxOverrides == 2

EnvFileTexts ==
    { <<"A", "=", "f", NL, "B", "=", "$", "A">>,
      <<"e", "x", "p", "o", "r", "t", " ", "C", "=", "c">>,
      <<"B", "=", "g">> }

OverrideLines ==
    { <<"A", "=", "o">>,
      <<"B", "=", "$", "A">>,
      <<"C", "=", "$", "{", "B", "}">> }

EnvConfigs ==
    {ConfigOf(FALSE, FALSE, FALSE, FALSE, f, o) :
        f \in ListsOf(EnvFileTexts, MaxEnvFiles),
        o \in ListsOf(OverrideLines, MaxOverrides)}

EnvDocs ==
    { <<"$", "A", ".", "$", "B">>,
      <<"$", "{", "C", "-", "$", "A", "}">> }

\* The environment GetOutput is called in.
InitialEnv == Name("A") :> <<"a">>

Init ==
    \E c \in (FlagConfigs \X Docs) \cup (EnvConfigs \X EnvDocs) :
        GetOutputInit(c[1], c[2], InitialEnv)

Spec == Init /\ [][Next]_vars

\* ------------------------------------------------ the resolver's inputs
\* ${ name operation expr }
Braced(name, operation, expr) ==
    <<DOLLAR, LBRACE>> \o name \o operation \o expr \o <<RBRACE>>

Operations ==
    {<<"-">>, <<COLON, "-">>, <<"+">>, <<COLON, "+">>, <<"?">>, <<COLON, "?">>}

\* The parts of a default: literal text (a line feed among it) and the plain
\* references, a bare and a braced one.
PlainParts == {<<"x">>, <<NL>>, <<DOLLAR, "B">>, <<DOLLAR, LBRACE, "A", RBRACE>>}

\* The defaults of at most MaxExprParts plain parts.
MaxExprParts == 2

PlainExprs == TextsOf(PlainParts, MaxExprParts)

\* The references with an operator whose default is plain.
InnerRefs ==
    {Braced(Name(n), o, x) : n \in {"A", "B"}, o \in Operations, x \in PlainExprs}

\* The references parseParam is called with: a plain one, or one with an
\* operator, or with the token % that is none, followed by plain text or by
\* one more reference with an operator.
Refs ==
    {<<DOLLAR, "A">>, <<DOLLAR, LBRACE, "A", RBRACE>>}
    \cup {Braced(Name("A"), o, x) :
             o \in Operations \cup {<<"%">>}, x \in PlainExprs \cup InnerRefs}

\* The environments: each of A and B unset, set and empty, or set and not
\* empty.
VarStates == {"unset", "empty", "set"}

EnvOf(a, b) ==
    [k \in {Name("A") : x \in {a} \ {"unset"}} \cup {Name("B") : x \in {b} \ {"unset"}} |->
        IF k = Name("A")
        THEN (IF a = "empty" THEN <<>> ELSE <<"a">>)
        ELSE (IF b = "empty" THEN <<>> ELSE <<"b">>)]

Envs == {EnvOf(a, b) : a \in VarStates, b \in VarStates}

InitResolve ==
    \E ref \in Refs, e \in Envs :
        StartAt("parseParam", NoConfig, <<>>, e, [NoCall EXCEPT !.param = ref])

SpecResolve == InitResolve /\ [][NextResolve]_vars

\* ------------------------------------------------- the scanner's inputs
\* The parts of a scanned text: the quotes, the backslash, a bare reference,
\* the opening and the closing of a braced one, and a letter.
ScanParts ==
    { <<SQ>>, <<DQ>>, <<BS>>, <<DOLLAR, "A">>, <<DOLLAR, LBRACE, "A", "-">>,
      <<RBRACE>>, <<"x">> }

\* The texts of at most MaxScanParts parts.
MaxScanParts == 5

ScanTexts == TextsOf(ScanParts, MaxScanParts)

InitScan ==
    \E text \in ScanTexts :
        StartAt("tokenizeByQuotes", NoConfig, text, EmptyEnv, NoCall)

SpecScan == InitScan /\ [][NextScan]_vars

\* ---------------------------------------------------- the batches of setEnv
\* The lines of a batch: a plain assignment, assignments whose value has one
\* reference, two references, a reference in single quotes, a required
\* reference to an unset variable and a quote without partner, and two lines
\* that are no assignment.
BatchLines ==
    { <<"B", "=", "x">>,
      <<"C", "=", "$", "A">>,
      <<"C", "=", "$", "A", "$", "B">>,
      <<"C", "=", "'", "$", "A", "'", "$", "A">>,
      <<"C", "=", "$", "{", "D", "?", "m", "}">>,
      <<"C", "=", "'">>,
      <<"$", "B", "=", "x">>,
      <<"B", " ", "=", "x">> }

\* The batches of at most MaxBatchLines lines.
MaxBatchLines == 3

Batches == ListsOf(BatchLines, MaxBatchLines) \ {<<>>}

\* The calls with one batch: an env file, or the overrides.
BatchConfigs ==
    {ConfigOf(FALSE, FALSE, FALSE, FALSE, <<JoinLines(b)>>, <<>>) : b \in Batches}
    \cup {ConfigOf(FALSE, FALSE, FALSE, FALSE, <<>>, b) : b \in Batches}

\* GetOutput at its loop over the env files, with one batch to apply.
InitSetEnv ==
    \E cfg \in BatchConfigs : StartAt("envFiles", cfg, <<>>, InitialEnv, NoCall)

NextSetEnv ==
    \/ EnvFile
    \/ Overrides
    \/ SetEnvLine

SpecSetEnv == InitSetEnv /\ [][NextSetEnv]_vars

\* ------------------------------------------------ quoteHandler's inputs
\* The parts of a fragment: the quotes, the backslash, a letter and the
\* letter n, which after a backslash makes an escape sequence.
QuoteParts == {<<SQ>>, <<DQ>>, <<BS>>, <<"x">>, <<"n">>}

\* The fragments of at most MaxQuoteParts parts.
MaxQuoteParts == 5

QuoteTexts == TextsOf(QuoteParts, MaxQuoteParts)

\* quoteHandler called with a fragment and the context it was found in.
InitQuote ==
    \E text \in QuoteTexts, type \in {unQuoted, singleQuoted, doubleQuoted} :
        StartWith("quoteHandler", NoConfig, text, EmptyEnv, NoCall, type)

SpecQuote == InitQuote /\ [][NextQuote]_vars

\* ================================================================ the claims
\* ------------------------------------------------------------------- C1
\* The operator of the call, as it was handed to handleDefaults, and the
\* state of the variable it was handed.
CallOperation == call.parserMatch.defaultsOperation
CallKind == CallOperation[Len(CallOperation)]
CallColon == Len(CallOperation) = 2
CallIsSet == call.braced \in DOMAIN env
CallNonEmpty == CallIsSet /\ env[call.braced] # <<>>

\* handleDefaults has returned in the call.
DefaultsHandled ==
    /\ call.parserMatch.defaults
    /\ pc \in {"embedded", "failing", "splice", "returned", "panicked"}

\* The operator table: the current value is used.
UseValue ==
    IF CallKind = "+"
    THEN ~CallIsSet \/ (CallColon /\ ~CallNonEmpty)
    ELSE CallIsSet /\ (~CallColon \/ CallNonEmpty)

\* C1: for each of the six operators and each state of the variable,
\* handleDefaults decides as the operator table says: for - and ? the current
\* value is used iff the variable is set and (the operator has no colon or
\* the value is not empty); for + it is used iff the variable is unset or
\* (the operator has a colon and the value is empty); failing is true iff the
\* operator is ? or :? and the current value is not used.
HandleDefaultsTable ==
    DefaultsHandled =>
        /\ CallOperation \in Operations
        /\ call.resolved = UseValue
        /\ call.failing = (CallKind = "?" /\ ~UseValue)
        /\ (pc = "embedded" => call.value = Getenv(env, call.braced))
        /\ (pc = "failing" /\ call.resolved => call.value = Getenv(env, call.braced))

\* handleDefaults has decided for :+ and a variable that is set and empty,
\* the one case in which + uses the current value of a set variable.
HandleDefaultsTableWitness ==
    /\ DefaultsHandled
    /\ pc = "failing"
    /\ CallOperation = <<COLON, "+">>
    /\ CallIsSet
    /\ ~CallNonEmpty
    /\ call.resolved

\* ------------------------------------------------------------- C2, C6
\* The parts of a braced reference ref as the specification reads them: its
\* name, the operator that follows the name (empty when none of the six
\* does) and its defaultExpr, the text from the operator to the final brace.
RefName(ref) == Slice(ref, 2, NameEnd(ref, 3))
RefOperation(ref) ==
    Slice(ref, NameEnd(ref, 3), NameEnd(ref, 3) + OperationLength(ref, NameEnd(ref, 3)))
DefaultExpr(ref) == Slice(ref, NameEnd(ref, 3) + Len(RefOperation(ref)), Len(ref) - 1)

\* ref is one braced reference, from its first to its last character.
IsBracedRef(ref) ==
    /\ At(ref, 1) = LBRACE
    /\ MatchesToIndices(ref) = << <<0, Len(ref)>> >>

HasOperation(ref) == IsBracedRef(ref) /\ RefOperation(ref) # <<>>
Required(ref) == HasOperation(ref) /\ RefOperation(ref)[Len(RefOperation(ref))] = "?"

\* The operator table for the reference ref in the environment e: the current
\* value is not used.
FallbackTaken(ref, e) ==
    IF RefOperation(ref)[Len(RefOperation(ref))] = "+"
    THEN ~(RefName(ref) \notin DOMAIN e \/ (Len(RefOperation(ref)) = 2 /\ e[RefName(ref)] = <<>>))
    ELSE ~(RefName(ref) \in DOMAIN e /\ (Len(RefOperation(ref)) = 1 \/ e[RefName(ref)] # <<>>))

\* The text t in which the references found in it (matches, from index from
\* on) are replaced, left to right, by what resolving each one gives.
RECURSIVE ReplacedFrom(_, _, _, _)
ReplacedFrom(t, matches, from, e) ==
    IF matches = <<>> THEN Slice(t, from, Len(t))
    ELSE Slice(t, from, Head(matches)[1])
         \o parseParam(Slice(t, Head(matches)[1], Head(matches)[2]), e).val
         \o ReplacedFrom(t, Tail(matches), Head(matches)[2], e)

Replaced(t, e) == ReplacedFrom(t, MatchesToIndices(t), 0, e)

\* Resolving some reference found in t fails.
SomeFails(t, e) ==
    \E k \in 1..Len(MatchesToIndices(t)) :
        ~parseParam(Slice(t, MatchesToIndices(t)[k][1], MatchesToIndices(t)[k][2]), e).ok

\* The call of parseParam has ended.
CallEnded == pc \in {"returned", "panicked"}

\* The call fails with the resolved defaultExpr of the reference ref (or, when
\* resolving that defaultExpr fails, with the failure's own message).
FailsWithDefaultOf(ref) ==
    /\ pc = "panicked"
    /\ panicMsg = parseEmbeddedParams(DefaultExpr(ref), env).val

\* C2: when a reference with operator ? or :? takes its fallback branch,
\* resolving it fails, and the failure message is the reference's defaultExpr
\* with every nested reference in it resolved; also when the failing reference
\* is the taken default of another reference, whose resolution then fails
\* with the same message.
RequiredFailsWithDefault ==
    CallEnded =>
        /\ (Required(call.param) /\ FallbackTaken(call.param, env))
              => FailsWithDefaultOf(call.param)
        /\ (/\ HasOperation(call.param)
            /\ ~Required(call.param)
            /\ FallbackTaken(call.param, env)
            /\ Required(DefaultExpr(call.param))
            /\ FallbackTaken(DefaultExpr(call.param), env))
              => FailsWithDefaultOf(DefaultExpr(call.param))

\* C6: when a reference's default branch is taken and the operator is not ?
\* or :?, the result of resolving it is its defaultExpr in which every nested
\* reference is replaced, left to right, by the value the same resolution
\* gives it, the literal text between them kept unchanged.
DefaultResolved ==
    (/\ CallEnded
     /\ HasOperation(call.param)
     /\ ~Required(call.param)
     /\ FallbackTaken(call.param, env))
        => IF SomeFails(DefaultExpr(call.param), env)
           THEN pc = "panicked"
           ELSE /\ pc = "returned"
                /\ call.value = Replaced(DefaultExpr(call.param), env)

\* ------------------------------------------------------------------- C5
\* The ranges of segs partition [0, n): in ascending order, none empty, the
\* first from 0, each from where the one before it ends, the last to n.
Partitions(segs, n) ==
    /\ (n = 0) = (segs = <<>>)
    /\ \A k \in 1..Len(segs) :
          /\ segs[k].Position[1] < segs[k].Position[2]
          /\ segs[k].Position[1] = (IF k = 1 THEN 0 ELSE segs[k - 1].Position[2])
    /\ (segs # <<>> => segs[Len(segs)].Position[2] = n)

\* C5: for every input text, tokenizeByQuotes returns segments in ascending
\* order whose ranges partition [0, len(text)); no segment is empty, and the
\* empty text yields no segments.
TokenizationPartitions ==
    pc = "getValidSlices" => Partitions(segments, Len(payload))

\* tokenizeByQuotes has returned an unquoted, a single-quoted and a
\* double-quoted segment, the quoted ones next to each other.
TokenizationPartitionsWitness ==
    /\ pc = "getValidSlices"
    /\ Len(segments) >= 3
    /\ \E k \in 1..(Len(segments) - 1) :
          /\ segments[k].SegmentType = singleQuoted
          /\ segments[k + 1].SegmentType = doubleQuoted
    /\ \E k \in 1..Len(segments) : segments[k].SegmentType = unQuoted

\* ------------------------------------------------------------------- C4
\* The index i lies inside a single-quoted segment of the tokenization of t.
InSingleQuotes(t, i) ==
    \E k \in 1..Len(tokenizeByQuotes(t)) :
        /\ tokenizeByQuotes(t)[k].SegmentType = singleQuoted
        /\ tokenizeByQuotes(t)[k].Position[1] <= i
        /\ i < tokenizeByQuotes(t)[k].Position[2]

\* C4: with quoting honoured, no reference returned by findParams(text,
\* getValidSlices(tokenizeByQuotes(text))) has its start index inside a
\* single-quoted segment of the tokenization of that text.
NoParamInSingleQuotes ==
    pc = "scanned" =>
        \A k \in 1..Len(params) : ~InSingleQuotes(payload, params[k].Position[1])

\* The finder matched a reference that starts inside single quotes, which
\* findParams dropped, and one outside, which it returned.
NoParamInSingleQuotesWitness ==
    /\ pc = "scanned"
    /\ Len(params) > 0
    /\ \E k \in 1..Len(MatchesToIndices(payload)) :
          InSingleQuotes(payload, MatchesToIndices(payload)[k][1])

\* ------------------------------------------------------------------- C3
\* Something of the output is written: text is printed, or the target file
\* is created (truncated) or written.
OutputStarted == stdout # <<>> \/ created \/ disk # payload

\* C3: in a document expansion call every document reference is resolved
\* before any output is written: if resolving any reference fails, nothing
\* of the expanded text has been emitted and, with in-place editing, the
\* target file has not been created or truncated.
ResolvedBeforeOutput ==
    /\ (pc = "panicked" => ~OutputStarted)
    /\ (OutputStarted => \A k \in 1..Len(params) : params[k].Id \in DOMAIN values)

\* An in-place expansion failed on a reference after it had resolved another.
ResolvedBeforeOutputWitness ==
    /\ pc = "panicked"
    /\ config.editInPlace
    /\ Len(calls) >= 2
    /\ DOMAIN values # {}

\* ------------------------------------------------------------------- C7
Ids(ps) == [k \in 1..Len(ps) |-> ps[k].Id]

\* The texts of ids in the order of their first occurrences.
RECURSIVE FirstOccurrences(_)
FirstOccurrences(ids) ==
    IF ids = <<>> THEN <<>>
    ELSE FirstOccurrences(SubSeq(ids, 1, Len(ids) - 1))
         \o (IF \E k \in 1..(Len(ids) - 1) : ids[k] = ids[Len(ids)]
             THEN <<>>
             ELSE <<ids[Len(ids)]>>)

\* C7: mapParamValues calls the resolver exactly once per distinct reference
\* text, at that text's first occurrence, never again for later occurrences,
\* and the resulting map has exactly one entry per distinct reference text.
ResolvedOncePerText ==
    /\ \A i, j \in 1..Len(calls) : calls[i] = calls[j] => i = j
    /\ (pc = "map" =>
          /\ calls = FirstOccurrences(Ids(SubSeq(params, 1, mapIdx - 1)))
          /\ DOMAIN values = {calls[k] : k \in 1..Len(calls)})
    /\ (pc \in {"create", "write", "done"} /\ ~config.list =>
          /\ calls = FirstOccurrences(Ids(params))
          /\ DOMAIN values = {params[k].Id : k \in 1..Len(params)})

\* A document with repeated references has been expanded: there are more
\* references than calls of the resolver, and more than one call.
ResolvedOncePerTextWitness ==
    /\ pc = "done"
    /\ Len(calls) >= 2
    /\ Len(params) > Len(calls)

\* ------------------------------------------------------------------- C8
\* What stands for the reference p in the expanded document.
Shown(p) ==
    IF parseParam(p.Id, env).val = <<>> /\ config.preserve
    THEN p.Id
    ELSE parseParam(p.Id, env).val

\* The expanded document from the reference of index k on, the text before
\* index from being done.
RECURSIVE ComposedFrom(_, _)
ComposedFrom(k, from) ==
    IF k > Len(params) THEN Slice(payload, from, Len(payload))
    ELSE Slice(payload, from, params[k].Position[1])
         \o Shown(params[k])
         \o ComposedFrom(k + 1, params[k].Position[2])

\* The document the call leaves: the file with editInPlace, else the output.
Output == IF config.editInPlace THEN disk ELSE stdout

\* C8: the expanded document is the concatenation, in document order, of the
\* literal text before the first reference, then for each reference its
\* resolved value (or, when that is empty and preserve is on, the reference's
\* own text) followed by the literal text up to the next reference or the
\* end; a document with no references is output identical to its input.
OutputComposed ==
    pc = "done" /\ ~config.list =>
        /\ Output = ComposedFrom(1, 0)
        /\ (params = <<>> => Output = payload)

\* With preserve on, a document was expanded that has literal text before its
\* first reference, a reference of empty value and one of non-empty value.
OutputComposedWitness ==
    /\ pc = "done"
    /\ config.preserve
    /\ Len(params) >= 2
    /\ params[1].Position[1] > 0
    /\ \E k \in 1..Len(params) : values[params[k].Id] = <<>>
    /\ \E k \in 1..Len(params) : values[params[k].Id] # <<>>

\* -------------------------------------------------------------- C9, C10
\* The lines of the text t.
RECURSIVE LinesOf(_)
LinesOf(t) ==
    IF \E k \in 1..Len(t) : t[k] = NL
    THEN <<SubSeq(t, 1, (CHOOSE k \in 1..Len(t) :
                            t[k] = NL /\ \A j \in 1..(k - 1) : t[j] # NL) - 1)>>
         \o LinesOf(SubSeq(t, (CHOOSE k \in 1..Len(t) :
                                  t[k] = NL /\ \A j \in 1..(k - 1) : t[j] # NL) + 1,
                           Len(t)))
    ELSE <<t>>

\* The name the line NAME=value, or export NAME=value, assigns.
Export == <<"e", "x", "p", "o", "r", "t", " ">>
LineName(line) ==
    IF Len(line) >= 7 /\ SubSeq(line, 1, 7) = Export
    THEN SubSeq(line, 8, (CHOOSE k \in 8..Len(line) :
                             line[k] = "=" /\ \A j \in 8..(k - 1) : line[j] # "=") - 1)
    ELSE SubSeq(line, 1, (CHOOSE k \in 1..Len(line) :
                             line[k] = "=" /\ \A j \in 1..(k - 1) : line[j] # "=") - 1)

LineNames(lines) == [k \in 1..Len(lines) |-> LineName(lines[k])]

\* The names the env files assign, file after file and line after line, and
\* the names the overrides assign, in the order given.
RECURSIVE FileNames(_)
FileNames(files) ==
    IF files = <<>> THEN <<>>
    ELSE LineNames(LinesOf(Head(files))) \o FileNames(Tail(files))

AppliedNames == [k \in 1..Len(applied) |-> applied[k].name]

IsPrefix(a, b) == Len(a) <= Len(b) /\ a = SubSeq(b, 1, Len(a))

\* The assignment of index k is the last one an override makes to its name.
LastOverride(k) ==
    /\ ~applied[k].isFile
    /\ \A j \in (k + 1)..Len(applied) : applied[j].name # applied[k].name

\* C9: in one GetOutput call all assignments from env files (files in the
\* order given) are applied to the environment first, then all inline
\* overrides (in the order given), and only after every assignment has
\* completed is any document reference resolved; hence a variable assigned by
\* both an env file and an override has the override's value during expansion.
AssignmentsBeforeExpansion ==
    /\ IsPrefix(AppliedNames,
                FileNames(config.envFiles) \o LineNames(config.envOverrides))
    /\ \A k \in 1..Len(applied) :
          applied[k].isFile = (k <= Len(FileNames(config.envFiles)))
    /\ (calls # <<>> =>
          /\ Len(applied) = Len(FileNames(config.envFiles)) + Len(config.envOverrides)
          /\ \A k \in 1..Len(applied) :
                LastOverride(k) => Getenv(env, applied[k].name) = applied[k].value)

\* A reference to a variable is resolved to the value an override gave it,
\* after an env file had given it another one.
AssignmentsBeforeExpansionWitness ==
    /\ pc = "done"
    /\ <<DOLLAR, "A">> \in DOMAIN values
    /\ \E i, j \in 1..Len(applied) :
          /\ applied[i].isFile
          /\ LastOverride(j)
          /\ applied[i].name = Name("A")
          /\ applied[j].name = Name("A")
          /\ applied[i].value # applied[j].value
          /\ values[<<DOLLAR, "A">>] = applied[j].value

\* The assignments of index i and j were made by the same batch, i before j,
\* and i is the last one before j that assigns its name.
EarlierLine(i, j) ==
    /\ i < j
    /\ applied[i].isFile = applied[j].isFile
    /\ applied[i].file = applied[j].file
    /\ \A k \in (i + 1)..(j - 1) : applied[k].name # applied[i].name

\* The value v is text that normalization leaves as it is.
Plain(v) == \A k \in 1..Len(v) : v[k] \in NameChars

\* The right-hand side rhs is a reference to name and nothing else.
RefersTo(rhs, name) ==
    \/ rhs = <<DOLLAR>> \o name
    \/ rhs = <<DOLLAR, LBRACE>> \o name \o <<RBRACE>>

\* C10: within one assignment batch, lines are processed top to bottom and
\* each line's right-hand side is resolved against the environment as updated
\* by all earlier lines of the same batch: a reference to a name assigned on
\* an earlier line sees the newly assigned value, not the value the name had
\* before the batch.
LaterLinesSeeEarlier ==
    /\ (pc = "setEnv" =>
          IsPrefix(SubSeq(AppliedNames,
                          Len(applied) - Cardinality({k \in 1..Len(applied) :
                              /\ applied[k].isFile = batch.isFile
                              /\ applied[k].file = fileIdx}) + 1,
                          Len(applied)),
                   LineNames(LinesOf(batch.text))))
    /\ \A i, j \in 1..Len(applied) :
          (/\ EarlierLine(i, j)
           /\ RefersTo(applied[j].rhs, applied[i].name)
           /\ Plain(applied[i].value))
             => applied[j].value = applied[i].value

\* The first batch of the call gave a variable a value other than the one it
\* had, and a later line of the batch that refers to it got the new value.
LaterLinesSeeEarlierWitness ==
    \E j \in 2..Len(applied) :
        /\ EarlierLine(1, j)
        /\ RefersTo(applied[j].rhs, applied[1].name)
        /\ Plain(applied[1].value)
        /\ applied[1].value # Getenv(InitialEnv, applied[1].name)
        /\ applied[j].value = applied[1].value

\* -------------------------------------------------------- C11, C12, C13
\* The batch of a call that has one: its lines, and whether it is a file.
BatchIsFile == config.envFiles # <<>>
BatchLinesOf ==
    IF BatchIsFile THEN LinesOf(config.envFiles[1]) ELSE config.envOverrides

\* The line has the shape NAME=value, after an optional export in a file.
WellShaped(line, isFile) == EnvMatchAt(line, 0, isFile).found

SomeLineInvalid ==
    \E k \in 1..Len(BatchLinesOf) : ~WellShaped(BatchLinesOf[k], BatchIsFile)

NoLineValid ==
    \A k \in 1..Len(BatchLinesOf) : ~WellShaped(BatchLinesOf[k], BatchIsFile)

\* setEnv has returned to GetOutput, or the call has panicked.
SetEnvReturned == pc = "findParams" \/ (pc = "envFiles" /\ fileIdx > 1)
SetEnvEnded == SetEnvReturned \/ pc = "panicked"

\* C11: an assignment batch in which any line does not match the shape
\* NAME=value (with an optional leading export only for env files) fails as
\* a whole with the error 'Invalid env assignment syntax': setEnv does not
\* return, and when no line is an assignment that is the message.
InvalidLineFailsBatch ==
    (SomeLineInvalid /\ SetEnvEnded) =>
        /\ pc = "panicked"
        /\ (NoLineValid => panicMsg = InvalidSyntax)

\* C12: assignment batches fail atomically: if setEnv fails on some line,
\* the environment after the failure equals the environment before the
\* batch started, including for variables named on lines preceding the
\* failing one.
FailedBatchChangesNothing ==
    pc = "panicked" => (env = InitialEnv /\ applied = <<>>)

\* The environment after the first n assignments of the call.
RECURSIVE EnvAfter(_)
EnvAfter(n) ==
    IF n = 0 THEN InitialEnv
    ELSE Setenv(EnvAfter(n - 1), applied[n].name, applied[n].value)

\* The text t with every reference of ps, from the last to the first,
\* replaced by its resolved value in the environment e.
RECURSIVE ExpandRefs(_, _, _)
ExpandRefs(t, ps, e) ==
    IF ps = <<>> THEN t
    ELSE ExpandRefs(Slice(t, 0, ps[Len(ps)].Position[1])
                        \o parseParam(ps[Len(ps)].Id, e).val
                        \o Slice(t, ps[Len(ps)].Position[2], Len(t)),
                    SubSeq(ps, 1, Len(ps) - 1), e)

\* The references of the value rhs that lie outside single quotes.
RefsOutsideSingleQuotes(rhs) ==
    findParams(rhs, getValidSlices(tokenizeByQuotes(rhs)))

\* The value with every such reference resolved, then normalized.
FullyExpanded(rhs, e) ==
    quoteHandler(ExpandRefs(rhs, RefsOutsideSingleQuotes(rhs), e), unQuoted)

\* C13: for an assignment line NAME=value, the stored value is obtained by
\* first replacing every parameter reference in value that lies outside
\* single quotes by its resolved value, however many references the value
\* contains, and then applying quote/escape normalization in Unquoted
\* context; references inside single quotes are stored as literal text.
StoredValueFullyExpanded ==
    \A k \in 1..Len(applied) :
        applied[k].value = FullyExpanded(applied[k].rhs, EnvAfter(k - 1)).val

\* ------------------------------------------------------------------ C14
\* The record of the list call for the reference found at the span pos.
RecordOf(pos) == [Param |-> Slice(payload, pos[1], pos[2]), Index |-> pos[1]]

\* The spans of the references findParams reports for the document.
FoundSpans ==
    [k \in 1..Len(findParams(payload, validSlices)) |->
        findParams(payload, validSlices)[k].Position]

\* C14: the list call outputs exactly one record per reference found by
\* findParams, in the same order, each with the reference's exact text and
\* its start index, and it does so without resolving any reference: a
\* document containing a ?/:? reference on an unset variable is listed
\* without failure.
ListedAsFound ==
    config.list =>
        /\ pc # "panicked"
        /\ calls = <<>>
        /\ values = EmptyEnv
        /\ (pc = "done" =>
              /\ Len(listed) = Len(FoundSpans)
              /\ \A k \in 1..Len(listed) : listed[k] = RecordOf(FoundSpans[k]))

\* A document with two references and more, one of them a required
\* reference to an unset variable, has been listed.
ListedAsFoundWitness ==
    /\ config.list
    /\ pc = "done"
    /\ Len(listed) >= 2
    /\ Name("C") \notin DOMAIN env
    /\ \E k \in 1..Len(listed) :
          /\ listed[k].Param = <<"$", "{", "C", ":", "?", "e", "$", "A", "}">>
          /\ listed[k].Index > 0

\* ------------------------------------------------------------------ C15
\* The indices of the unescaped quotes of the wrapped fragment that lie in
\* one of its unQuoted segments, once the tokenizer has paired the quotes.
UnpairedQuotes ==
    {i \in 0..(Len(payload) - 1) :
        /\ At(payload, i) \in {SQ, DQ}
        /\ unescapedToken(payload, i)
        /\ \E k \in 1..Len(segments) :
              /\ segments[k].SegmentType = unQuoted
              /\ InRange(i, segments[k].Position)}

FirstUnpairedQuote ==
    CHOOSE i \in UnpairedQuotes : \A j \in UnpairedQuotes : i <= j

\* C15: quoteHandler(fragment, context) fails with the message 'unmatched
\* quote <c> in: <fragment wrapped in its context quotes>' exactly when,
\* after the tokenizer has paired quotes in the wrapped fragment, some
\* Unquoted sub-segment still contains an unescaped quote character c (the
\* first such one is reported); in every other case it returns a string
\* without failing.
UnmatchedQuoteReported ==
    pc \in {"returned", "panicked"} =>
        IF UnpairedQuotes # {}
        THEN /\ pc = "panicked"
             /\ panicMsg = <<"unmatched quote ", At(payload, FirstUnpairedQuote),
                             " in: ">> \o payload
        ELSE pc = "returned"

\* A fragment found in double quotes, with paired quotes and after them two
\* quotes without partner, has failed with the first of the two.
UnmatchedQuoteReportedWitness ==
    /\ pc = "panicked"
    /\ parent = doubleQuoted
    /\ Len(segments) >= 2
    /\ Cardinality(UnpairedQuotes) = 2
    /\ panicMsg[2] = At(payload, FirstUnpairedQuote)

\* ------------------------------------------------------------------ C16
\* The spans of the finder's matches that start inside single quotes.
QuotedMatches ==
    {MatchesToIndices(payload)[k] : k \in 1..Len(MatchesToIndices(payload))}
        \cap {m \in Nat \X Nat : InSingleQuotes(payload, m[1])}

ParamSpans == {params[k].Position : k \in 1..Len(params)}

\* The document is made of dots and of '$A' only.
OnlyQuotedRefs ==
    payload \in TextsOf({<<".">>, <<SQ, DOLLAR, "A", SQ>>}, MaxDocParts)

\* The text t from index i on with every $A replaced by the value of A.
RECURSIVE Substituted(_, _)
Substituted(t, i) ==
    IF i >= Len(t) THEN <<>>
    ELSE IF At(t, i) = DOLLAR /\ i + 1 < Len(t) /\ At(t, i + 1) = "A"
    THEN Getenv(env, Name("A")) \o Substituted(t, i + 2)
    ELSE <<At(t, i)>> \o Substituted(t, i + 1)

\* C16: with ignoreQuotes on, the whole document [0, len(text)) is the single
\* valid range, so a reference inside single quotes is expanded like any
\* other and the surrounding quote characters are kept in the output; with
\* ignoreQuotes off the same reference is left literal.
IgnoreQuotesExpands ==
    /\ (config.ignoreQuotes /\ pc # "GetOutput" =>
          validSlices = <<<<0, Len(payload)>>>>)
    /\ (pc \in {"list", "map", "noParams"} =>
          IF config.ignoreQuotes
          THEN QuotedMatches \subseteq ParamSpans
          ELSE QuotedMatches \cap ParamSpans = {})
    /\ (pc = "done" /\ ~config.list /\ OnlyQuotedRefs =>
          Output = IF config.ignoreQuotes THEN Substituted(payload, 0) ELSE payload)

\* With ignoreQuotes on, a document with a reference in single quotes was
\* expanded: the value stands between the quotes.
IgnoreQuotesExpandsWitness ==
    /\ pc = "done"
    /\ config.ignoreQuotes
    /\ ~config.list
    /\ OnlyQuotedRefs
    /\ QuotedMatches # {}
    /\ Output # payload
    /\ Len(Output) = Len(payload) - Cardinality(QuotedMatches)

\* ------------------------------------------------------------------ C17
\* A well-formed reference starts at index i of the text, in a valid range.
ReferenceStartsAt(i) ==
    ParamMatchAt(payload, i) >= 0 /\ InSomeSlice(i, validSlices)

\* The index i lies inside the span of a reported reference, after its start.
InsideReported(i) ==
    \E k \in 1..Len(params) :
        params[k].Position[1] < i /\ i < params[k].Position[2]

\* C17: findParams is complete over the valid ranges: every well-formed
\* reference (unescaped $NAME or balanced ${NAME...}) whose start index lies
\* in a valid range is reported, unless it lies inside the span of another
\* reported reference; a candidate match that starts inside a single-quoted
\* segment and is therefore discarded never hides a reference that starts in
\* a later valid range.
FindParamsComplete ==
    pc = "scanned" =>
        \A i \in 0..(Len(payload) - 1) :
            ReferenceStartsAt(i) =>
                \/ \E k \in 1..Len(params) : params[k].Position[1] = i
                \/ InsideReported(i)

\* -------------------------------------------------------------- C18, C19
\* The parser's step of the call is done.
ParserDone == pc \notin {"parseParam", "parser"}

\* C18: for every braced reference returned by the finder whose name is
\* immediately followed by one of the six operators, the resolver's
\* defaultExpr is exactly the text between that operator and the reference's
\* final closing brace, whatever characters it contains, line breaks
\* included, and the operator semantics are applied with that defaultExpr.
DefaultExprToClosingBrace ==
    (ParserDone /\ HasOperation(call.param)) =>
        /\ call.parserMatch.defaults
        /\ call.parserMatch.defaultsOperation = RefOperation(call.param)
        /\ call.parserMatch.defaultsValue = DefaultExpr(call.param)

\* C19: the operator the resolver applies to a braced reference ${NAME...}
\* is the operator token that immediately follows NAME in that outer
\* reference; when NAME is not immediately followed by one of the six
\* operators, no operator is applied and the result is NAME's current value,
\* even when the rest of the reference contains a nested reference that has
\* an operator of its own.
OuterOperatorOnly ==
    /\ (ParserDone /\ call.parserMatch.defaults =>
          call.parserMatch.defaultsOperation = RefOperation(call.param))
    /\ (CallEnded /\ IsBracedRef(call.param) /\ ~HasOperation(call.param) =>
          /\ pc = "returned"
          /\ call.value = Getenv(env, RefName(call.param)))

\* ------------------------------------------------------------------ C20
\* getValidSlices has returned in the scan.
ValidSlicesDone == pc \in {"scanParams", "scanned"}

\* C20: getValidSlices does not modify the segments it is given: after the
\* call every input segment has the same range as before, so calling
\* getValidSlices again on the same segment sequence returns the same
\* ascending, non-overlapping, merged ranges as the first call.
SegmentsUnmodified ==
    ValidSlicesDone =>
        /\ segments = tokenizeByQuotes(payload)
        /\ getValidSlices(segments) = validSlices

\* ------------------------------------------------------------------ C21
\* Every backslash of the wrapped fragment lies, with the character after
\* it, between the delimiting quotes of a single-quoted segment.
BackslashesInSingleQuotes ==
    \A i \in 0..(Len(payload) - 1) :
        At(payload, i) = BS =>
            \E k \in 1..Len(segments) :
                /\ segments[k].SegmentType = singleQuoted
                /\ segments[k].Position[1] < i
                /\ i + 1 < segments[k].Position[2] - 1

\* The text of the segment seg as written, without its delimiting quotes.
AsWritten(seg) ==
    IF seg.SegmentType = unQuoted
    THEN Slice(payload, seg.Position[1], seg.Position[2])
    ELSE Slice(payload, seg.Position[1] + 1, seg.Position[2] - 1)

RECURSIVE AsWrittenFrom(_)
AsWrittenFrom(k) ==
    IF k > Len(segments) THEN <<>>
    ELSE AsWritten(segments[k]) \o AsWrittenFrom(k + 1)

\* C21: in quoteHandler with Unquoted context, the content of a
\* single-quoted sub-segment is literal: the text between its two delimiting
\* single quotes appears in the result exactly as written, and backslash
\* escape sequences inside it are not interpreted.  Checked on the fragments
\* whose backslashes all lie inside single quotes, where the result is then
\* the fragment without the delimiting quotes.
SingleQuotedLiteral ==
    (pc = "returned" /\ parent = unQuoted /\ BackslashesInSingleQuotes) =>
        result = AsWrittenFrom(1)

\* ------------------------------------------------------------------ C22
\* An unescaped single quote stands at index i of the text.
UnescapedSingleQuoteAt(i) == At(payload, i) = SQ /\ unescapedToken(payload, i)

\* C22: a single-quoted segment produced by tokenizeByQuotes starts at an
\* unescaped single quote and ends at the next unescaped single quote after
\* it; a single quote preceded by an odd number of backslashes does not
\* close the segment.
SingleQuotedEndsUnescaped ==
    pc = "getValidSlices" =>
        \A k \in 1..Len(segments) :
            segments[k].SegmentType = singleQuoted =>
                /\ UnescapedSingleQuoteAt(segments[k].Position[1])
                /\ UnescapedSingleQuoteAt(segments[k].Position[2] - 1)
                /\ \A j \in (segments[k].Position[1] + 1)..(segments[k].Position[2] - 2) :
                      ~UnescapedSingleQuoteAt(j)

====
